---- MODULE Spec2Model ----
(***************************************************************************)
(* PERMANOVA (src/permanova.py): the one-way and two-way pseudo-F          *)
(* calculators and the two permutation-test drivers.                       *)
(*                                                                         *)
(* Numbers.  The source computes with numpy float64 scalars and Python     *)
(* floats.  The model computes with exact rationals extended by +inf, -inf *)
(* and nan, and keeps for every value whether it is a numpy scalar: a      *)
(* division by zero raises ZeroDivisionError between two Python numbers    *)
(* and yields inf or nan as soon as one operand is a numpy scalar.         *)
(* Distances are integers, so every sum of squares is exact in the source  *)
(* too; rounding of the later divisions is not modelled.                   *)
(***************************************************************************)
EXTENDS Integers, Sequences, FiniteSets, TLC

\* Largest number of observations of the enumerated one-way inputs.
MaxN == 4
\* Largest number of observations of the enumerated two-way inputs.
MaxN2 == 3
\* Observations are points 0..MaxCoord on a line; dm[i][j] = |x[i] - x[j]|.
MaxCoord == 1
\* Largest trial count ("permutations") of the enumerated inputs.
MaxP == 2

(***************************************************************************)
(* Extended rational arithmetic with Python's and numpy's error behaviour. *)
(* A value is a record: k is "fin" (n/d, d > 0, lowest terms), "inf" (n is *)
(* the sign), "nan", or the name of the exception the evaluation raised;   *)
(* np says that the value is a numpy scalar.                               *)
(***************************************************************************)
Abs(x) == IF x < 0 THEN -x ELSE x

Sign(x) == IF x < 0 THEN -1 ELSE IF x > 0 THEN 1 ELSE 0

RECURSIVE Gcd(_, _)
Gcd(x, y) == IF y = 0 THEN x ELSE Gcd(y, x % y)

Fin(n, d, np) ==
    LET s == IF d < 0 THEN -1 ELSE 1
        g == Gcd(Abs(n), Abs(d))
    IN  [k |-> "fin", n |-> (s * n) \div g, d |-> (s * d) \div g, np |-> np]

Inf(s) == [k |-> "inf", n |-> s, d |-> 1, np |-> TRUE]

NaN == [k |-> "nan", n |-> 0, d |-> 1, np |-> TRUE]

Raise(e) == [k |-> e, n |-> 0, d |-> 1, np |-> FALSE]

Exceptions == {"ZeroDivisionError", "IndexError", "AssertionError"}

IsRaise(x) == x.k \in Exceptions

\* float(v) of a Python int: a Python float.
PyFloat(v) == Fin(v, 1, FALSE)

\* x - y
Sub(x, y) ==
    IF IsRaise(x) THEN x
    ELSE IF IsRaise(y) THEN y
    ELSE IF x.k = "nan" \/ y.k = "nan" THEN NaN
    ELSE IF x.k = "inf" THEN (IF y.k = "inf" /\ y.n = x.n THEN NaN ELSE x)
    ELSE IF y.k = "inf" THEN Inf(-y.n)
    ELSE Fin(x.n * y.d - y.n * x.d, x.d * y.d, x.np \/ y.np)

\* The sign of a divisor: a zero divisor here is always +0.0.
DSign(y) == IF y.n < 0 THEN -1 ELSE 1

\* x / y (true division: one operand is always a float)
Div(x, y) ==
    IF IsRaise(x) THEN x
    ELSE IF IsRaise(y) THEN y
    ELSE IF x.k = "nan" \/ y.k = "nan" THEN NaN
    ELSE IF x.k = "inf" THEN (IF y.k = "inf" THEN NaN ELSE Inf(x.n * DSign(y)))
    ELSE IF y.k = "inf" THEN Fin(0, 1, TRUE)
    ELSE IF y.n = 0
         THEN IF ~(x.np \/ y.np) THEN Raise("ZeroDivisionError")
              ELSE IF x.n = 0 THEN NaN ELSE Inf(Sign(x.n))
    ELSE Fin(x.n * y.d, x.d * y.n, x.np \/ y.np)

\* x > y as Python and numpy evaluate it: False as soon as one side is nan.
Gt(x, y) ==
    IF x.k = "nan" \/ y.k = "nan" THEN FALSE
    ELSE IF x.k = "inf" THEN (x.n = 1 /\ ~(y.k = "inf" /\ y.n = 1))
    ELSE IF y.k = "inf" THEN y.n = -1
    ELSE x.n * y.d > y.n * x.d

\* x >= y
Ge(x, y) ==
    IF x.k = "nan" \/ y.k = "nan" THEN FALSE
    ELSE IF x.k = "inf" THEN (x.n = 1 \/ (y.k = "inf" /\ y.n = -1))
    ELSE IF y.k = "inf" THEN y.n = -1
    ELSE x.n * y.d >= y.n * x.d

(***************************************************************************)
(* Sequences and the sums of squares.                                      *)
(***************************************************************************)
Range(s) == {s[i] : i \in 1..Len(s)}

\* np.asarray(dm).shape of a rectangular list of lists.
Shape(dm_) == IF Len(dm_) = 0 THEN <<0>> ELSE <<Len(dm_), Len(dm_[1])>>

NCols(dm_) == IF Len(dm_) = 0 THEN 0 ELSE Len(dm_[1])

RECURSIVE SumSet(_, _)
SumSet(S, dm_) ==
    IF S = {} THEN 0
    ELSE LET p == CHOOSE q \in S : TRUE
         IN  dm_[p[1] + 1][p[2] + 1] * dm_[p[1] + 1][p[2] + 1]
             + SumSet(S \ {p}, dm_)

\* sum(...) of the squares the index pairs S select: Python's int 0 when S
\* selects nothing, a numpy scalar otherwise.
SumSquares(S, dm_) == Fin(SumSet(S, dm_), 1, S # {})

\* Faulty variant of above_pairs: the second range starts one too far, at
\* xrange(2, len(dm)), and the pair of the first two observations is lost.
above_pairs_from_2(dm_) ==
    {p \in (0..(Len(dm_) - 1)) \X (2..(Len(dm_) - 1)) : p[1] < p[2]}

\* product(xrange(len(dm)), xrange(1, len(dm))) filtered by i < j (0-based).
above_pairs(dm_) ==
    {p \in (0..(Len(dm_) - 1)) \X (1..(Len(dm_) - 1)) : p[1] < p[2]}

\* The entries r[i+1:] of every row r (0-based row i): the pairs above the
\* diagonal, to the last column.
above_diagonal_entries(dm_) ==
    {p \in (0..(Len(dm_) - 1)) \X (0..(NCols(dm_) - 1)) : p[1] < p[2]}

\* The condition on the labels of a pair: levels[i] == levels[j],
\* levels[i][0] == levels[j][0] or levels[i][1] == levels[j][1].
same(by, x, y) ==
    CASE by = "level" -> x = y
      [] by = "a" -> x[1] = y[1]
      [] by = "b" -> x[2] = y[2]

\* The sum of dm[i][j]**2 over the pairs i < j whose labels are the same by
\* `by`, with the IndexError of levels[j] or dm[i][j] out of range.
filtered_sum(dm_, levels_, by) ==
    LET pairs == above_pairs(dm_)
    IN  IF \E p \in pairs : p[2] >= Len(levels_)
        THEN Raise("IndexError")
        ELSE LET sel == {p \in pairs : same(by, levels_[p[1] + 1], levels_[p[2] + 1])}
             IN  IF \E p \in sel : p[2] >= NCols(dm_)
                 THEN Raise("IndexError")
                 ELSE SumSquares(sel, dm_)

(***************************************************************************)
(* f_oneway                                                                *)
(***************************************************************************)
\* total sum of squared distances
sst_oneway(dm_, bign) ==
    Div(SumSquares(above_diagonal_entries(dm_), dm_), PyFloat(bign))

\* sum of within-group squares
ssw_oneway(dm_, levels_, n) ==
    Div(filtered_sum(dm_, levels_, "level"), PyFloat(n))

\* Faulty variant of fstat_oneway: the ratio SSA/SSW without the degrees of
\* freedom.
fstat_oneway_without_df(sst, ssw, a, bign) == Div(Sub(sst, ssw), ssw)

fstat_oneway(sst, ssw, a, bign) ==
    LET ssa == Sub(sst, ssw)
    IN  Div(Div(ssa, PyFloat(a - 1)), Div(ssw, PyFloat(bign - a)))

f_oneway(dm_, levels_) ==
    LET bign == Len(levels_)
        a == Cardinality(Range(levels_))
    IN  IF a = 0 THEN Raise("ZeroDivisionError")
        ELSE IF Shape(dm_) # <<bign, bign>> THEN Raise("AssertionError")
        ELSE LET n == bign \div a
                 sst == sst_oneway(dm_, bign)
                 ssw == ssw_oneway(dm_, levels_, n)
             IN  IF IsRaise(ssw) THEN ssw ELSE fstat_oneway(sst, ssw, a, bign)

(***************************************************************************)
(* f_twoway: the triple <<f_interaction, f_a, f_b>>, or the exception.     *)
(***************************************************************************)
\* Python evaluates the statements in order: the first exception wins.
FirstRaise(xs) ==
    IF \E i \in 1..Len(xs) : IsRaise(xs[i])
    THEN xs[CHOOSE i \in 1..Len(xs) :
                /\ IsRaise(xs[i])
                /\ \A j \in 1..(i - 1) : ~IsRaise(xs[j])]
    ELSE xs[1]

AnyRaise(xs) == \E i \in 1..Len(xs) : IsRaise(xs[i])

\* n = bign/float(a*b) is a float, bign/(a*b) exactly; b*n is bign/a and a*n
\* is bign/b.
f_twoway(dm_, levels_) ==
    LET bign == Len(levels_)
        a == Cardinality({l[1] : l \in Range(levels_)})
        b == Cardinality({l[2] : l \in Range(levels_)})
        n == Div(PyFloat(bign), PyFloat(a * b))
    IN  IF IsRaise(n) THEN <<n, n, n>>
        ELSE
        LET sst == Div(SumSquares(above_diagonal_entries(dm_), dm_), PyFloat(bign))
            ssr == Div(filtered_sum(dm_, levels_, "level"), n)
            sswa == Div(filtered_sum(dm_, levels_, "a"), Fin(b * n.n, n.d, FALSE))
            sswb == Div(filtered_sum(dm_, levels_, "b"), Fin(a * n.n, n.d, FALSE))
        IN  IF AnyRaise(<<ssr, sswa, sswb>>)
            THEN LET e == FirstRaise(<<ssr, sswa, sswb>>) IN <<e, e, e>>
            ELSE
            LET ssa == Sub(sst, sswa)
                ssb == Sub(sst, sswb)
                ssab == Sub(Sub(Sub(sst, ssa), ssb), ssr)
                dfr == PyFloat(bign - a * b)
                f_interaction == Div(Div(ssab, PyFloat((a - 1) * (b - 1))), Div(ssr, dfr))
                f_a == Div(Div(ssa, PyFloat(a - 1)), Div(ssr, dfr))
                f_b == Div(Div(ssb, PyFloat(b - 1)), Div(ssr, dfr))
            IN  IF AnyRaise(<<f_interaction, f_a, f_b>>)
                THEN LET e == FirstRaise(<<f_interaction, f_a, f_b>>) IN <<e, e, e>>
                ELSE <<f_interaction, f_a, f_b>>

(***************************************************************************)
(* r.shuffle(l): every rearrangement of l is a possible outcome, whatever  *)
(* the order l is in.                                                      *)
(***************************************************************************)
RemoveAt(s, k) == [j \in 1..(Len(s) - 1) |-> IF j < k THEN s[j] ELSE s[j + 1]]

FirstIndex(s, e) == CHOOSE k \in 1..Len(s) : s[k] = e /\ \A j \in 1..(k - 1) : s[j] # e

\* Faulty variant of Shuffles: the labels are drawn with replacement, so a
\* label can come out more or less often than it went in.
Resamples(s) == [1..Len(s) -> {s[k] : k \in 1..Len(s)}]

RECURSIVE Shuffles(_)
Shuffles(s) ==
    IF Len(s) = 0 THEN {<<>>}
    ELSE UNION {{<<e>> \o t : t \in Shuffles(RemoveAt(s, FirstIndex(s, e)))} : e \in Range(s)}

\* zip(xs, ys) of two lists of the same length
Zip(xs, ys) == [k \in 1..Len(xs) |-> <<xs[k], ys[k]>>]

\* [l[c] for l in levels]
Column(levels_, c) == [k \in 1..Len(levels_) |-> levels_[k][c]]

(***************************************************************************)
(* The inputs of a call.                                                   *)
(***************************************************************************)
Labels == {1, 2}

\* Group labels are only compared for equality: the first observation's label
\* is 1.
Labelings(n) == {l \in [1..n -> Labels] : n >= 1 => l[1] = 1}

PairLabelings(n) == {Zip(la, lb) : la \in Labelings(n), lb \in Labelings(n)}

\* Observations are listed from left to right on the line, the first at 0.
Coordinates(n) ==
    {xs \in [1..n -> 0..MaxCoord] :
        /\ n >= 1 => xs[1] = 0
        /\ \A k \in 1..(n - 1) : xs[k] <= xs[k + 1]}

\* The rows x cols matrix of distances of the points xs; a column past the
\* last point holds 1 + the row's coordinate.
LineDM(xs, cols) ==
    [r \in 1..Len(xs) |->
        [c \in 1..cols |-> IF c <= Len(xs) THEN Abs(xs[r] - xs[c]) ELSE xs[r] + 1]]

LevelsOf(m, n) == IF m = "oneway" THEN Labelings(n) ELSE PairLabelings(n)

Modes == {"oneway", "twoway"}

\* Calls that meet the shape precondition: an n x n symmetric matrix with a
\* zero diagonal and n levels.
SquareInputsOf(m, n) ==
    {[mode |-> m, dm |-> LineDM(xs, n), levels |-> l, permutations |-> p] :
        xs \in Coordinates(n), l \in LevelsOf(m, n), p \in 0..MaxP}

MaxObs(m) == IF m = "oneway" THEN MaxN ELSE MaxN2

SquareInputs == UNION {UNION {SquareInputsOf(m, n) : n \in 0..MaxObs(m)} : m \in Modes}

\* Equally spaced points
Spaced(n) == [k \in 1..n |-> k - 1]

\* Calls whose matrix is not n x n: one row or column more or less.
MismatchShapes(n) ==
    {sh \in (0..(n + 1)) \X (0..(n + 2)) :
        /\ sh # <<n, n>>
        /\ Abs(sh[1] - n) <= 1
        /\ Abs(sh[2] - sh[1]) <= 1}

MismatchInputsOf(m, n) ==
    {[mode |-> m, dm |-> LineDM(Spaced(sh[1]), sh[2]), levels |-> l, permutations |-> 1] :
        sh \in MismatchShapes(n), l \in LevelsOf(m, n)}

MismatchInputs ==
    UNION {UNION {MismatchInputsOf(m, n) : n \in 0..MaxObs(m)} : m \in Modes}

\* spec.md section 8, property 6: 6 observations in 2 groups of 3, distance 1
\* within a group and 10 between the groups.
ScenarioDM ==
    [r \in 1..6 |-> [c \in 1..6 |->
        IF r = c THEN 0 ELSE IF (r <= 3) = (c <= 3) THEN 1 ELSE 10]]

ScenarioLevels == <<1, 1, 1, 2, 2, 2>>

\* A balanced 2 x 2 design with 2 observations per cell: 8 points on a line.
FactorialDM == LineDM(<<0, 1, 3, 4, 7, 9, 12, 13>>, 8)

FactorialLevels ==
    << <<1, 1>>, <<1, 1>>, <<1, 2>>, <<1, 2>>, <<2, 1>>, <<2, 1>>, <<2, 2>>, <<2, 2>> >>

ScenarioInputs ==
    { [mode |-> "oneway", dm |-> ScenarioDM, levels |-> ScenarioLevels, permutations |-> 1],
      [mode |-> "twoway", dm |-> FactorialDM, levels |-> FactorialLevels, permutations |-> 1] }

Inputs == SquareInputs \cup MismatchInputs \cup ScenarioInputs

(***************************************************************************)
(* The state of one call of permanova_oneway or permanova_twoway.          *)
(*                                                                         *)
(* Lists are objects: heap maps an object to its content, and a name such  *)
(* as shuffledlevels holds the object it is bound to.  The caller's list   *)
(* is the object "levels".  A list that is no longer read (at the end of   *)
(* its loop, at the end of the call) is released: its content is dropped.  *)
(***************************************************************************)
VARIABLES
    mode,            \* "oneway" or "twoway": the entry point called
    dm,              \* the caller's distance matrix
    permutations,    \* the trial count
    heap,            \* the content of the list objects
    shuffledlevels,  \* the object the name shuffledlevels is bound to
    pc,              \* the position in the entry point
    i,               \* iterations of the current loop that have run
    bigf,            \* the observed statistic(s)
    f,               \* the statistic(s) of the last trial of the running loop
    above,           \* above (one-way); above_i, above_a, above_b (two-way)
    result,          \* the value returned or the exception raised
    arg_dm,          \* history: the matrix as passed in
    arg_levels,      \* history: the levels as passed in
    passed,          \* history: the labeling the last trial of the running loop (or
                     \* the observed call) passed to the calculator
    drawn,           \* history: r.shuffle calls, per scheme
    calls            \* history: calls of f_oneway / f_twoway

vars == <<mode, dm, permutations, heap, shuffledlevels, pc, i, bigf, f, above, result,
          arg_dm, arg_levels, passed, drawn, calls>>

Schemes == {"oneway", "interaction", "a", "b"}

Objects == {"levels", "shuffledlevels", "a_levels", "b_levels"}

None == "None"

Zeros == [s \in Schemes |-> 0]

\* Faulty variant of list_copy: no copy is made, the variable is another name
\* of the list it was given (shuffledlevels = levels).
list_alias(name, src) == src

\* list(l): a new list object, named after the variable it is assigned to.
list_copy(name, src) == name

\* The content of object o is dropped; the caller's list outlives the call.
Release(h, o) == IF o = "levels" THEN h ELSE [h EXCEPT ![o] = <<>>]

\* Faulty variant of trial_count: a loop stops at the number of distinct
\* orders of the labels when there are fewer than P.
trial_count_capped(P, levels_) ==
    IF Cardinality(Shuffles(levels_)) < P THEN Cardinality(Shuffles(levels_)) ELSE P

\* for i in xrange(permutations): the number of iterations of a loop.
trial_count(P, levels_) == P

\* Faulty variant of p_value: the observed labeling is counted as a trial in
\* the numerator only, (above + 1)/float(permutations).
p_value_plus_one(ab, s, P) == Div(PyFloat(ab[s] + 1), PyFloat(P))

\* above/float(permutations) of scheme s
p_value(ab, s, P) == Div(PyFloat(ab[s]), PyFloat(P))

\* The end of the call releases every list of its own.
ReleaseLocals(h) == [o \in Objects |-> IF o = "levels" THEN h[o] ELSE <<>>]

Init ==
    \E inp \in Inputs :
        /\ mode = inp.mode
        /\ dm = inp.dm
        /\ permutations = inp.permutations
        /\ heap = [o \in Objects |-> IF o = "levels" THEN inp.levels ELSE <<>>]
        /\ shuffledlevels = None
        /\ pc = "start"
        /\ i = 0
        /\ bigf = None
        /\ above = Zeros
        /\ result = None
        /\ arg_dm = inp.dm
        /\ arg_levels = inp.levels
        /\ passed = None
        /\ drawn = Zeros
        /\ calls = 0
        /\ f = None

\* An exception leaves the entry point: the call ends, its lists are released.
Raised(e, h) ==
    /\ pc' = "raised"
    /\ result' = e.k
    /\ heap' = ReleaseLocals(h)

(***************************************************************************)
(* permanova_oneway                                                        *)
(***************************************************************************)
\* Faulty variant of count_oneway: if f > bigf, a tie is not counted.
count_oneway_strict(stat, observed, n) == IF Gt(stat, observed) THEN n + 1 ELSE n

\* if f >= bigf: above += 1
count_oneway(stat, observed, n) == IF Ge(stat, observed) THEN n + 1 ELSE n

\* bigf = f_oneway(dm, levels); above = 0; shuffledlevels = list(levels)
OnewayObserved ==
    /\ pc = "start" /\ mode = "oneway"
    /\ \E F \in {f_oneway(dm, heap["levels"])} :
           /\ calls' = calls + 1
           /\ passed' = heap["levels"]
           /\ IF IsRaise(F)
              THEN /\ Raised(F, heap)
                   /\ UNCHANGED <<shuffledlevels, bigf>>
              ELSE /\ bigf' = F
                   /\ shuffledlevels' = list_copy("shuffledlevels", "levels")
                   /\ heap' = [heap EXCEPT ![shuffledlevels'] = heap["levels"]]
                   /\ pc' = "loop"
                   /\ UNCHANGED result
    /\ UNCHANGED <<mode, dm, permutations, i, f, above, arg_dm, arg_levels, drawn>>

\* One iteration: r.shuffle(shuffledlevels); f = f_oneway(dm, shuffledlevels);
\* the comparison with bigf.
OnewayTrial ==
    /\ pc = "loop" /\ i < trial_count(permutations, heap["levels"])
    /\ \E order \in Shuffles(heap[shuffledlevels]) :
        LET h == [heap EXCEPT ![shuffledlevels] = order]
        IN  \E stat \in {f_oneway(dm, h[shuffledlevels])} :
            /\ drawn' = [drawn EXCEPT !["oneway"] = @ + 1]
            /\ calls' = calls + 1
            /\ passed' = h[shuffledlevels]
            /\ IF IsRaise(stat)
               THEN /\ Raised(stat, h)
                    /\ UNCHANGED <<i, f, above>>
               ELSE /\ heap' = h
                    /\ f' = stat
                    /\ above' = [above EXCEPT !["oneway"] = count_oneway(stat, bigf, @)]
                    /\ i' = i + 1
                    /\ UNCHANGED <<pc, result>>
    /\ UNCHANGED <<mode, dm, permutations, shuffledlevels, bigf, arg_dm, arg_levels>>

\* p = above/float(permutations); return (bigf, p)
OnewayReturn ==
    /\ pc = "loop" /\ i = trial_count(permutations, heap["levels"])
    /\ LET p == p_value(above, "oneway", permutations)
       IN  IF IsRaise(p)
           THEN Raised(p, heap)
           ELSE /\ pc' = "returned"
                /\ result' = <<bigf, p>>
                /\ heap' = ReleaseLocals(heap)
    /\ passed' = None
    /\ f' = None
    /\ UNCHANGED <<mode, dm, permutations, shuffledlevels, i, bigf, above, arg_dm,
                   arg_levels, drawn, calls>>

(***************************************************************************)
(* permanova_twoway                                                        *)
(***************************************************************************)
\* Faulty variant of count_twoway: if f_i >= bigf_i, a tie is counted.
count_twoway_ties(stat, observed, n) == IF Ge(stat, observed) THEN n + 1 ELSE n

\* if f_i > bigf_i: above_i += 1 (and the same for f_a, f_b)
count_twoway(stat, observed, n) == IF Gt(stat, observed) THEN n + 1 ELSE n

\* Faulty variant of trial_levels: the marginal trials zip the two shuffled
\* lists, zip(a_levels, b_levels), and not a shuffled list with the observed
\* labels of the other factor.
trial_levels_both_shuffled(s, h) ==
    IF s = "interaction" THEN h[shuffledlevels] ELSE Zip(h["a_levels"], h["b_levels"])

\* The labeling each scheme passes to f_twoway, from the lists in h.
trial_levels(s, h) ==
    IF s = "interaction" THEN h[shuffledlevels]
    ELSE IF s = "a" THEN Zip(h["a_levels"], Column(h["levels"], 2))
    ELSE Zip(Column(h["levels"], 1), h["b_levels"])

\* The list each scheme shuffles.
shuffled_list(s) ==
    IF s = "interaction" THEN shuffledlevels
    ELSE IF s = "a" THEN "a_levels" ELSE "b_levels"

\* The place of each scheme's statistic in (f_interaction, f_a, f_b).
stat_index(s) == IF s = "interaction" THEN 1 ELSE IF s = "a" THEN 2 ELSE 3

\* bigf_i, bigf_a, bigf_b = f_twoway(dm, levels); the three counters; the
\* three lists.
TwowayObserved ==
    /\ pc = "start" /\ mode = "twoway"
    /\ \E F \in {f_twoway(dm, heap["levels"])} :
           /\ calls' = calls + 1
           /\ passed' = heap["levels"]
           /\ IF IsRaise(F[1])
              THEN /\ Raised(F[1], heap)
                   /\ UNCHANGED <<shuffledlevels, bigf>>
              ELSE /\ bigf' = F
                   /\ shuffledlevels' = list_copy("shuffledlevels", "levels")
                   /\ heap' = [o \in Objects |->
                                IF o = "levels" THEN heap["levels"]
                                ELSE IF o = shuffledlevels' THEN heap["levels"]
                                ELSE IF o = "a_levels" THEN Column(heap["levels"], 1)
                                ELSE IF o = "b_levels" THEN Column(heap["levels"], 2)
                                ELSE <<>>]
                   /\ pc' = "loop_i"
                   /\ UNCHANGED result
    /\ UNCHANGED <<mode, dm, permutations, i, f, above, arg_dm, arg_levels, drawn>>

\* One iteration of the loop of scheme s: the shuffle, f_twoway on the
\* scheme's labeling, the comparison with the observed statistic.
TwowayTrial(s, at) ==
    /\ pc = at /\ i < trial_count(permutations, heap["levels"])
    /\ \E order \in Shuffles(heap[shuffled_list(s)]) :
        LET h == [heap EXCEPT ![shuffled_list(s)] = order]
        IN  \E stat \in {f_twoway(dm, trial_levels(s, h))} :
            /\ drawn' = [drawn EXCEPT ![s] = @ + 1]
            /\ calls' = calls + 1
            /\ passed' = trial_levels(s, h)
            /\ IF IsRaise(stat[1])
               THEN /\ Raised(stat[1], h)
                    /\ UNCHANGED <<i, f, above>>
               ELSE /\ heap' = h
                    /\ f' = stat
                    /\ above' = [above EXCEPT ![s] =
                                    count_twoway(stat[stat_index(s)], bigf[stat_index(s)], @)]
                    /\ i' = i + 1
                    /\ UNCHANGED <<pc, result>>
    /\ UNCHANGED <<mode, dm, permutations, shuffledlevels, bigf, arg_dm, arg_levels>>

\* The loop of scheme s has run `permutations` times: the next loop starts.
TwowayNextLoop(s, at, to) ==
    /\ pc = at /\ i = trial_count(permutations, heap["levels"])
    /\ pc' = to
    /\ i' = 0
    /\ heap' = Release(heap, shuffled_list(s))
    /\ passed' = None
    /\ f' = None
    /\ UNCHANGED <<mode, dm, permutations, shuffledlevels, bigf, above, result, arg_dm,
                   arg_levels, drawn, calls>>

TwowayTrialI == TwowayTrial("interaction", "loop_i")

TwowayEndI == TwowayNextLoop("interaction", "loop_i", "loop_a")

TwowayTrialA == TwowayTrial("a", "loop_a")

TwowayEndA == TwowayNextLoop("a", "loop_a", "loop_b")

TwowayTrialB == TwowayTrial("b", "loop_b")

\* p_i, p_a, p_b = [above/float(permutations) ...]; return (p_i, p_a, p_b)
TwowayReturn ==
    /\ pc = "loop_b" /\ i = trial_count(permutations, heap["levels"])
    /\ LET p(s) == p_value(above, s, permutations)
       IN  IF IsRaise(p("interaction"))
           THEN Raised(p("interaction"), heap)
           ELSE /\ pc' = "returned"
                /\ result' = <<p("interaction"), p("a"), p("b")>>
                /\ heap' = ReleaseLocals(heap)
    /\ passed' = None
    /\ f' = None
    /\ UNCHANGED <<mode, dm, permutations, shuffledlevels, i, bigf, above, arg_dm,
                   arg_levels, drawn, calls>>

Next ==
    \/ OnewayObserved
    \/ OnewayTrial
    \/ OnewayReturn
    \/ TwowayObserved
    \/ TwowayTrialI
    \/ TwowayEndI
    \/ TwowayTrialA
    \/ TwowayEndA
    \/ TwowayTrialB
    \/ TwowayReturn

Spec == Init /\ [][Next]_vars

(***************************************************************************)
(* Properties.                                                             *)
(***************************************************************************)
\* Mathematical definitions the properties are stated with.
NumLevels(l) == Cardinality(Range(l))

Occurrences(l, e) == Cardinality({k \in 1..Len(l) : l[k] = e})

\* Every label occurs the same number of times.
Balanced(l) == \A d, e \in Range(l) : Occurrences(l, d) = Occurrences(l, e)

SameBag(l, m) ==
    /\ Len(l) = Len(m)
    /\ \A e \in Range(l) \cup Range(m) : Occurrences(l, e) = Occurrences(m, e)

\* The sum of d[r][c]^2 over the pairs r < c of 1..Len(d) that are in K, each
\* pair once.
RECURSIVE PairSquares(_, _, _, _)
PairSquares(d, r, c, K) ==
    IF r >= Len(d) THEN 0
    ELSE IF c > Len(d) THEN PairSquares(d, r + 1, r + 2, K)
    ELSE (IF <<r, c>> \in K THEN d[r][c] * d[r][c] ELSE 0) + PairSquares(d, r, c + 1, K)

TotalSquares(d) == PairSquares(d, 1, 2, (1..Len(d)) \X (1..Len(d)))

WithinSquares(d, l) ==
    PairSquares(d, 1, 2, {q \in (1..Len(d)) \X (1..Len(d)) : l[q[1]] = l[q[2]]})

\* Comparison of two statistics as extended reals; nan compares with nothing.
Ordered(u, v) == u.k # "nan" /\ v.k # "nan"

Equals(u, v) == Ordered(u, v) /\ u.k = v.k /\ u.n = v.n /\ u.d = v.d

Exceeds(u, v) ==
    /\ Ordered(u, v)
    /\ ~Equals(u, v)
    /\ CASE u.k = "inf" -> u.n = 1
         [] v.k = "inf" -> v.n = -1
         [] OTHER -> u.n * v.d > v.n * u.d

AtLeast(u, v) == Equals(u, v) \/ Exceeds(u, v)

Indicator(b) == IF b THEN 1 ELSE 0

\* The matrix is n x n for the n levels passed in.
WellShaped == Shape(arg_dm) = <<Len(arg_levels), Len(arg_levels)>>

Observed == pc \in {"loop", "loop_i", "loop_a", "loop_b", "returned"}

\* A step that runs one trial to its comparison.
TrialStep(at) == pc = at /\ pc' = at /\ i' = i + 1

\* C1: for a balanced one-way labeling with a labels, 2 <= a < n, f_oneway
\* returns ((SST - SSW)/(a-1)) / (SSW/(n-a)) with SST = T/n, SSW = W/(n/a),
\* T the sum of dm[i][j]^2 over all pairs i < j and W the sum over the pairs
\* with equal labels, each pair once (inf or nan when SSW = 0); the scenario
\* of 2 groups of 3 with distances 1 and 10 gives F0 = 298.
C1_OnewayFormula ==
    (mode = "oneway" /\ Observed) =>
        LET n == Len(arg_levels)
            a == NumLevels(arg_levels)
            T == TotalSquares(arg_dm)
            W == WithinSquares(arg_dm, arg_levels)
            g == n \div a
        IN  /\ (Balanced(arg_levels) /\ 2 <= a /\ a < n) =>
                /\ W > 0 =>
                    /\ bigf.k = "fin"
                    /\ bigf.n * (n * (a - 1) * W) = bigf.d * ((T * g - W * n) * (n - a))
                /\ W = 0 => bigf = (IF T > 0 THEN Inf(1) ELSE NaN)
            /\ (arg_dm = ScenarioDM /\ arg_levels = ScenarioLevels) =>
                /\ bigf.k = "fin" /\ bigf.n = 298 /\ bigf.d = 1
                /\ pc = "returned" => result[1] = bigf

C1_Witness ==
    /\ mode = "oneway" /\ pc = "returned"
    /\ arg_dm = ScenarioDM /\ arg_levels = ScenarioLevels
    /\ result[1].n = 298 /\ result[1].d = 1

\* C2: permanova_oneway returns (F0, k/P): every trial whose statistic is at
\* least F0 adds one to the counter, a trial that equals F0 included, and no
\* other trial does.
C2_Step ==
    /\ (mode = "oneway" /\ TrialStep("loop")) =>
           /\ f' = f_oneway(dm, heap'[shuffledlevels])
           /\ above'["oneway"] = above["oneway"] + Indicator(AtLeast(f', bigf))
    /\ (mode = "oneway" /\ pc' = "returned") =>
           /\ result'[1] = f_oneway(arg_dm, arg_levels)
           /\ result'[2].k = "fin"
           /\ result'[2].n * permutations = above["oneway"] * result'[2].d

C2_OnewayCountsTies == [][C2_Step]_vars

C2_Witness ==
    /\ mode = "oneway" /\ pc = "loop" /\ i >= 1
    /\ heap[shuffledlevels] # arg_levels
    /\ bigf.k = "fin" /\ Equals(f, bigf)
    /\ above["oneway"] = i

\* C3 as claimed: the interaction test counts a trial when F_interaction of
\* the trial is at least the observed one, ties included (stated for the calls
\* that meet the shape precondition and whose observed F_interaction is
\* finite).
C3_Claimed_Step ==
    (mode = "twoway" /\ WellShaped /\ TrialStep("loop_i") /\ bigf[1].k = "fin") =>
        above'["interaction"] = above["interaction"] + Indicator(AtLeast(f'[1], bigf[1]))

C3_Step ==
    /\ (mode = "twoway" /\ TrialStep("loop_i")) =>
           /\ f' = f_twoway(dm, heap'[shuffledlevels])
           /\ above'["interaction"] =
                  above["interaction"] + Indicator(Exceeds(f'[1], bigf[1]))
    /\ (mode = "twoway" /\ pc' = "returned") =>
           /\ result'[1].k = "fin"
           /\ result'[1].n * permutations = above["interaction"] * result'[1].d

C4_Step ==
    /\ (pc = "loop_a" /\ drawn'["a"] = drawn["a"] + 1) =>
           /\ Column(passed', 2) = Column(arg_levels, 2)
           /\ SameBag(Column(passed', 1), Column(arg_levels, 1))
    /\ (pc = "loop_b" /\ drawn'["b"] = drawn["b"] + 1) =>
           /\ Column(passed', 1) = Column(arg_levels, 1)
           /\ SameBag(Column(passed', 2), Column(arg_levels, 2))
    /\ TrialStep("loop_a") =>
           /\ f' = f_twoway(dm, passed')
           /\ above'["a"] = above["a"] + Indicator(Exceeds(f'[2], bigf[2]))
    /\ TrialStep("loop_b") =>
           /\ f' = f_twoway(dm, passed')
           /\ above'["b"] = above["b"] + Indicator(Exceeds(f'[3], bigf[3]))

C4_MarginalTests == [][C4_Step]_vars

\* A factor-B trial after the A-labels were shuffled, whose F_B ties with the
\* observed one on another labeling and is not counted.
C4_Witness ==
    /\ pc = "loop_b" /\ WellShaped /\ i = 1 /\ drawn["a"] >= 1
    /\ bigf[3].k = "fin" /\ Equals(f[3], bigf[3])
    /\ passed # arg_levels
    /\ above["b"] = 0

\* C5 as claimed: a call whose matrix is not n x n for the n levels fails with
\* the shape-mismatch error before any sum of squares and any shuffle.  The
\* formula is the claim's last clause: such a call never returns a result.
C5_ShapeMismatchNeverReturns == ~WellShaped => pc # "returned"

\* C6: every counter is at most the number of trials its scheme has run, which
\* is at most P, and every p-value returned is counter/P, in [0, 1].
InUnitInterval(v) == v.k = "fin" /\ 0 <= v.n /\ v.n <= v.d

C6_PValueBounds ==
    /\ \A s \in Schemes : 0 <= above[s] /\ above[s] <= drawn[s] /\ drawn[s] <= permutations
    /\ (pc = "returned" /\ mode = "oneway") =>
           /\ InUnitInterval(result[2])
           /\ result[2].n * permutations = above["oneway"] * result[2].d
    /\ (pc = "returned" /\ mode = "twoway") =>
           \A k \in 1..3 :
               /\ InUnitInterval(result[k])
               /\ \E s \in Schemes :
                      stat_index(s) = k /\ s # "oneway"
                      /\ result[k].n * permutations = above[s] * result[k].d

\* Every trial of a two-way scheme was counted: its p-value is 1.
C6_Witness ==
    /\ pc = "returned" /\ mode = "twoway" /\ WellShaped
    /\ permutations >= 2
    /\ above["a"] = permutations
    /\ result[2].k = "fin" /\ result[2].n = 1 /\ result[2].d = 1

\* C7: every call ends: it is never stuck before it returns or raises, and
\* every step brings it closer to its end; a call that returns has drawn
\* exactly P shuffles in each of its schemes and called the calculator once
\* for the observed labeling and once per trial, also when the labels have
\* fewer than P distinct orders.
Ended == pc \in {"returned", "raised"}

SchemesOf(m) == IF m = "oneway" THEN {"oneway"} ELSE {"interaction", "a", "b"}

\* An upper bound of the steps a call at position `at`, iteration k has left.
StepsLeft(at, k) ==
    CASE at = "start" -> 3 * (permutations + 1) + 2
      [] at = "loop" -> (permutations - k) + 1
      [] at = "loop_i" -> 3 * (permutations + 1) - k
      [] at = "loop_a" -> 2 * (permutations + 1) - k
      [] at = "loop_b" -> (permutations + 1) - k
      [] OTHER -> 0

\* The guards of the actions: the call has a next step.
HasNextStep ==
    \/ pc = "start" /\ mode \in Modes
    \/ /\ pc \in (IF mode = "oneway" THEN {"loop"} ELSE {"loop_i", "loop_a", "loop_b"})
       /\ i <= trial_count(permutations, heap["levels"])

C7_Counts ==
    /\ ~Ended => HasNextStep
    /\ pc = "returned" =>
           /\ \A s \in Schemes :
                  drawn[s] = (IF s \in SchemesOf(mode) THEN permutations ELSE 0)
           /\ calls = 1 + permutations * Cardinality(SchemesOf(mode))

C7_Progress == 0 <= StepsLeft(pc', i') /\ StepsLeft(pc', i') < StepsLeft(pc, i)

Perms(n) == {q \in [1..n -> 1..n] : \A j, k \in 1..n : q[j] = q[k] => j = k}

Transpositions(n) ==
    {[k \in 1..n |-> IF k = t[1] THEN t[2] ELSE IF k = t[2] THEN t[1] ELSE k] :
        t \in {u \in (1..n) \X (1..n) : u[1] < u[2]}}

PermuteDM(d, q) == [r \in 1..Len(d) |-> [c \in 1..Len(d) |-> d[q[r]][q[c]]]]

PermuteLevels(l, q) == [k \in 1..Len(l) |-> l[q[k]]]

Statistic(m, d, l) == IF m = "oneway" THEN <<f_oneway(d, l)>> ELSE f_twoway(d, l)

\* What a trial on labeling t does: the exception it raises, or its addition
\* to the counter of statistic k.
TrialOutcome(m, d, t, F0, k) ==
    LET st == Statistic(m, d, t)
    IN  IF IsRaise(st[1]) THEN [raises |-> st[1].k, adds |-> 0]
        ELSE IF m = "oneway"
        THEN [raises |-> "", adds |-> count_oneway(st[1], F0[1], 0)]
        ELSE [raises |-> "", adds |-> count_twoway(st[k], F0[k], 0)]

Outcomes(m, d, l) ==
    LET F0 == Statistic(m, d, l)
    IN  IF m = "oneway"
        THEN <<{TrialOutcome(m, d, t, F0, 1) : t \in Shuffles(l)}>>
        ELSE <<{TrialOutcome(m, d, t, F0, 1) : t \in Shuffles(l)},
               {TrialOutcome(m, d, Zip(t, Column(l, 2)), F0, 2) : t \in Shuffles(Column(l, 1))},
               {TrialOutcome(m, d, Zip(Column(l, 1), t), F0, 3) : t \in Shuffles(Column(l, 2))}>>

\* The enumerated inputs are checked for every reordering, the two larger
\* scenarios for every exchange of two observations; the outcomes of the
\* 8-observation scenario (2520 orders) are not enumerated.
Reorderings(m, n) == IF n <= MaxObs(m) THEN Perms(n) ELSE Transpositions(n)

\* The statistics and a trial's outcomes do not depend on the number of
\* permutations asked for: they are compared in the calls that ask for one.
JustObserved == pc \in {"loop", "loop_i"} /\ i = 0 /\ permutations = 1

C8_ReorderingInvariance ==
    (JustObserved /\ WellShaped) =>
        LET n == Len(arg_levels)
        IN  /\ \A q \in Reorderings(mode, n) :
                   Statistic(mode, PermuteDM(arg_dm, q), PermuteLevels(arg_levels, q))
                       = (IF mode = "oneway" THEN <<bigf>> ELSE bigf)
            /\ n <= 6 =>
                   {Outcomes(mode, PermuteDM(arg_dm, q), PermuteLevels(arg_levels, q)) :
                       q \in Transpositions(n)} \subseteq {Outcomes(mode, arg_dm, arg_levels)}

\* A two-way call on the balanced 2 x 2 design whose three statistics are
\* finite.
C8_Witness ==
    /\ JustObserved /\ mode = "twoway"
    /\ arg_dm = FactorialDM /\ arg_levels = FactorialLevels
    /\ \A k \in 1..3 : bigf[k].k = "fin"

\* C9: neither entry point changes its arguments: the caller's matrix and the
\* caller's levels list are at every point of the call what was passed in.
C9_ArgumentsUnchanged ==
    /\ dm = arg_dm
    /\ heap["levels"] = arg_levels

\* A trial has reordered the call's own copy.
C9_Witness ==
    /\ pc \in {"loop", "loop_i"} /\ i >= 1
    /\ shuffledlevels # "levels"
    /\ heap[shuffledlevels] # arg_levels
    /\ heap["levels"] = arg_levels

\* C10: the labeling every trial passes to the calculator has length n and,
\* per factor, the labels of the observed assignment with their
\* multiplicities; so the number of levels, the per-group divisor and SST are
\* those of the observed computation.
Factors(m, l) == IF m = "oneway" THEN <<l>> ELSE <<Column(l, 1), Column(l, 2)>>

\* A trial has run in the running loop, or has raised.
InTrial ==
    \/ pc \in {"loop", "loop_i", "loop_a", "loop_b"} /\ i >= 1
    \/ pc = "raised" /\ calls >= 2

C10_TrialLabelings ==
    InTrial =>
        /\ Len(passed) = Len(arg_levels)
        /\ \A k \in 1..Len(Factors(mode, passed)) :
               /\ SameBag(Factors(mode, passed)[k], Factors(mode, arg_levels)[k])
               /\ NumLevels(Factors(mode, passed)[k]) = NumLevels(Factors(mode, arg_levels)[k])
        /\ mode = "oneway" =>
               /\ Len(passed) \div NumLevels(passed)
                      = Len(arg_levels) \div NumLevels(arg_levels)
               /\ sst_oneway(dm, Len(passed)) = sst_oneway(dm, Len(arg_levels))
        /\ (pc = "loop_i" \/ mode = "oneway") => SameBag(passed, arg_levels)

\* The second trial of a loop, on an order that is not the observed one.
C10_Witness ==
    /\ InTrial /\ i = 2 /\ WellShaped
    /\ pc \in {"loop", "loop_a"}
    /\ passed # arg_levels
    /\ NumLevels(Factors(mode, passed)[1]) = 2
====
